---- MODULE Spec2Model ----
(***************************************************************************)
(* The HDB resale dashboard (src/app.py): a Streamlit script that is run   *)
(* top to bottom on every user interaction.  One run loads the memoized    *)
(* table, computes the widget bounds, reads the widget values, filters the *)
(* table and computes the KPIs and the three aggregates.                   *)
(*                                                                         *)
(* Representation.  A float is NaN (the empty tuple) or a rational         *)
(* <<num, den>> with den > 0.  A text cell is a string, the missing text   *)
(* cell is the string NaNStr.  A CSV month is the text <<year, month>>, a  *)
(* Timestamp is a day number, a date is <<year, month, day>>.  A frame is  *)
(* a sequence of rows, each carrying its pandas index label in idx.        *)
(***************************************************************************)
EXTENDS Integers, Sequences, FiniteSets

VARIABLES file, cache, reads, status, df, widgets, filtered_df, kpi,
          avg_price_by_town, tx_by_flat, trend

vars == <<file, cache, reads, status, df, widgets, filtered_df, kpi,
          avg_price_by_town, tx_by_flat, trend>>

(***************************************************************************)
(* Bounds of the model.                                                    *)
(***************************************************************************)
MaxRows == 2
MaxSelected == 2

(***************************************************************************)
(* Program constants.                                                      *)
(***************************************************************************)
TopN == 10
SliderStep == 10000

(***************************************************************************)
(* Values.                                                                 *)
(***************************************************************************)
NaN == <<>>
NaNStr == "NaN"
Raised == "ValueError"

IsNaN(x) == Len(x) = 0
Rat(n, d) == <<n, d>>
RatLe(a, b) == a[1] * b[2] <= b[1] * a[2]
RatLt(a, b) == a[1] * b[2] < b[1] * a[2]
RatAdd(a, b) == <<a[1] * b[2] + b[1] * a[2], a[2] * b[2]>>

\* Lexicographic order of the text values of the CSV, as Python compares str.
Lex == <<"3 ROOM", "4 ROOM", "ANG MO KIO", "BEDOK", "BISHAN", "BUKIT BATOK",
         "BUKIT MERAH", "BUKIT PANJANG", "CENTRAL AREA", "CHOA CHU KANG",
         "CLEMENTI", "GEYLANG", "HOUGANG", "JURONG EAST", "JURONG WEST",
         "KALLANG/WHAMPOA">>
InSet(s, S) == s \in S
\* sorted(S) for a set of text values.
SortedText(S) == SelectSeq(Lex, LAMBDA s : InSet(s, S))

(***************************************************************************)
(* Calendar: a Timestamp is a day number in a calendar of 31-day months,   *)
(* which keeps the order of (year, month, day).                            *)
(***************************************************************************)
TimestampOfDate(d) == ((d[1] * 12 + (d[2] - 1)) * 31) + (d[3] - 1)
DateOfTimestamp(t) == <<(t \div 31) \div 12, ((t \div 31) % 12) + 1, (t % 31) + 1>>
\* pd.to_datetime on the CSV text "YYYY-MM": midnight of the first of the month.
to_datetime_text(m) == TimestampOfDate(<<m[1], m[2], 1>>)
\* pd.to_datetime on a datetime.date: midnight of that day.
to_datetime_date(d) == TimestampOfDate(d)

(***************************************************************************)
(* The CSV files the model draws from.                                     *)
(***************************************************************************)
BaseRow ==
    [town |-> "ANG MO KIO", flat_type |-> "3 ROOM", resale_price |-> Rat(300000, 1),
     floor_area_sqm |-> Rat(67, 1), month |-> <<2017, 1>>]

RowPool ==
    {BaseRow,
     [BaseRow EXCEPT !.town = "BEDOK", !.resale_price = Rat(310000, 1)],
     [BaseRow EXCEPT !.town = NaNStr],
     [BaseRow EXCEPT !.flat_type = "4 ROOM", !.floor_area_sqm = Rat(90, 1)],
     [BaseRow EXCEPT !.flat_type = NaNStr, !.floor_area_sqm = NaN],
     [BaseRow EXCEPT !.resale_price = Rat(620001, 2)],
     [BaseRow EXCEPT !.resale_price = NaN],
     [BaseRow EXCEPT !.month = <<2017, 2>>, !.resale_price = Rat(310000, 1)]}

SmallFiles == UNION {[1..n -> RowPool] : n \in 0..MaxRows}

\* Files with transactions in NWide towns, more towns than the ranking keeps: one
\* transaction per town, prices rising with the town, then a second transaction in
\* the last town and one with no town.  Variant v > 0 gives town v the price of
\* town v + 1 (two equal means): variant 0 has no tie, variant NWide - TopN has the
\* tie on the cut of the ranking.
NWide == TopN + 1
WideRow(i, v) ==
    [BaseRow EXCEPT !.town = Lex[2 + i],
                    !.resale_price = Rat(300000 + 100 * (IF i = v THEN i + 1 ELSE i), 1)]
WideFile(v) ==
    [i \in 1..NWide |-> WideRow(i, v)]
    \o <<[BaseRow EXCEPT !.town = Lex[2 + NWide], !.resale_price = Rat(300050, 1)],
         [BaseRow EXCEPT !.town = NaNStr, !.resale_price = Rat(300700, 1)]>>
WideFiles == {WideFile(v) : v \in {0, NWide - TopN}}

(***************************************************************************)
(* load_data: read_csv gives each row its RangeIndex label, and the month  *)
(* column is converted from text to Timestamps.                            *)
(***************************************************************************)
read_csv(f) ==
    [i \in 1..Len(f) |->
        [idx |-> i - 1, town |-> f[i].town, flat_type |-> f[i].flat_type,
         resale_price |-> f[i].resale_price, floor_area_sqm |-> f[i].floor_area_sqm,
         month |-> to_datetime_text(f[i].month)]]

(***************************************************************************)
(* Series and frame operations.                                            *)
(***************************************************************************)
\* Mutant: the mask negated.
isin_negated(frame, col, values) == [i \in 1..Len(frame) |-> frame[i][col] \notin values]
\* Series.isin: a boolean mask, False for a missing value.
isin(frame, col, values) == [i \in 1..Len(frame) |-> frame[i][col] \in values]

\* Mutant: the upper bound exclusive.
between_price_exclusive(frame, lo, hi) ==
    [i \in 1..Len(frame) |->
        /\ ~IsNaN(frame[i].resale_price)
        /\ RatLe(Rat(lo, 1), frame[i].resale_price)
        /\ RatLt(frame[i].resale_price, Rat(hi, 1))]
\* Series.between on a float column with integer bounds, both inclusive; a NaN
\* compares False.
between_price(frame, lo, hi) ==
    [i \in 1..Len(frame) |->
        /\ ~IsNaN(frame[i].resale_price)
        /\ RatLe(Rat(lo, 1), frame[i].resale_price)
        /\ RatLe(frame[i].resale_price, Rat(hi, 1))]

\* Series.between on the Timestamp column, both bounds inclusive.
between_month(frame, lo, hi) ==
    [i \in 1..Len(frame) |-> lo <= frame[i].month /\ frame[i].month <= hi]

\* Mutant: the selected rows come out in reverse order.
RECURSIVE BoolIndexReversed(_, _)
BoolIndexReversed(frame, mask) ==
    IF Len(frame) = 0 THEN <<>>
    ELSE BoolIndexReversed(Tail(frame), Tail(mask))
         \o (IF Head(mask) THEN <<Head(frame)>> ELSE <<>>)
\* Mutant: the mask is applied one row off (row i is kept when the mask of row
\* i + 1 is True).
RECURSIVE BoolIndexShifted(_, _)
BoolIndexShifted(frame, mask) ==
    IF Len(frame) <= 1 THEN <<>>
    ELSE (IF mask[2] THEN <<Head(frame)>> ELSE <<>>)
         \o BoolIndexShifted(Tail(frame), Tail(mask))
\* frame[mask]: the rows whose mask is True, in the frame's order.
RECURSIVE BoolIndex(_, _)
BoolIndex(frame, mask) ==
    IF Len(frame) = 0 THEN <<>>
    ELSE (IF Head(mask) THEN <<Head(frame)>> ELSE <<>>)
         \o BoolIndex(Tail(frame), Tail(mask))

\* Series.min / Series.max: missing values are skipped, NaN when none is left.
NonNaN(frame, col) == {frame[i][col] : i \in {j \in 1..Len(frame) : ~IsNaN(frame[j][col])}}
series_min(frame, col) ==
    LET S == NonNaN(frame, col)
    IN  IF S = {} THEN NaN ELSE CHOOSE x \in S : \A y \in S : RatLe(x, y)
series_max(frame, col) ==
    LET S == NonNaN(frame, col)
    IN  IF S = {} THEN NaN ELSE CHOOSE x \in S : \A y \in S : RatLe(y, x)

\* int(float): truncation toward zero (the prices are positive); int(nan) raises
\* ValueError.
int_raises(x) == IsNaN(x)
int_of(x) == x[1] \div x[2]

Months(frame) == {frame[i].month : i \in 1..Len(frame)}
MinOf(S) == CHOOSE x \in S : \A y \in S : x <= y
MaxOf(S) == CHOOSE x \in S : \A y \in S : y <= x

(***************************************************************************)
(* The script's widget bounds and defaults (lines 46-69).                  *)
(***************************************************************************)
unique_towns(frame) == {frame[i].town : i \in 1..Len(frame)} \ {NaNStr}
unique_flat_types(frame) == {frame[i].flat_type : i \in 1..Len(frame)} \ {NaNStr}
min_price(frame) == int_of(series_min(frame, "resale_price"))
max_price(frame) == int_of(series_max(frame, "resale_price"))
date_min(frame) == DateOfTimestamp(MinOf(Months(frame)))
date_max(frame) == DateOfTimestamp(MaxOf(Months(frame)))

\* st.slider with min_value = max_value: some Streamlit versions render it, others
\* raise StreamlitAPIException ("min_value must be less than the max_value").
slider_may_raise(lo, hi) == lo = hi
SliderRaised == "StreamlitAPIException"

NoWidgets == [towns |-> {}, flats |-> {}, price |-> <<>>, dates |-> <<>>]
HasWidgets(w) == Len(w.price) = 2

DefaultWidgets(frame) ==
    [towns |-> {}, flats |-> {},
     price |-> <<min_price(frame), max_price(frame)>>,
     dates |-> <<date_min(frame), date_max(frame)>>]

(***************************************************************************)
(* The filter pipeline (lines 70-96).                                      *)
(***************************************************************************)
FilterTowns(frame, w) ==
    IF w.towns # {} THEN BoolIndex(frame, isin(frame, "town", w.towns)) ELSE frame
FilterFlatTypes(frame, w) ==
    IF w.flats # {} THEN BoolIndex(frame, isin(frame, "flat_type", w.flats)) ELSE frame
FilterPrice(frame, w) ==
    BoolIndex(frame, between_price(frame, w.price[1], w.price[2]))
\* Mutant: a single picked date is used as both ends of the range.
FilterDatesSingle(frame, w) ==
    IF Len(w.dates) >= 1
    THEN BoolIndex(frame, between_month(frame, to_datetime_date(w.dates[1]),
                                        to_datetime_date(w.dates[Len(w.dates)])))
    ELSE frame
FilterDates(frame, w) ==
    IF Len(w.dates) = 2
    THEN BoolIndex(frame, between_month(frame, to_datetime_date(w.dates[1]),
                                        to_datetime_date(w.dates[2])))
    ELSE frame
FilterPipeline(frame, w) ==
    FilterDates(FilterPrice(FilterFlatTypes(FilterTowns(frame, w), w), w), w)

(***************************************************************************)
(* Aggregation helpers.                                                    *)
(***************************************************************************)
Column(frame, col) == [i \in 1..Len(frame) |-> frame[i][col]]

DropNaN(values) == SelectSeq(values, LAMBDA x : ~IsNaN(x))

RECURSIVE RatSum(_)
RatSum(values) ==
    IF Len(values) = 0 THEN Rat(0, 1) ELSE RatAdd(Head(values), RatSum(Tail(values)))

\* Series.mean: missing values are skipped; NaN for no value.
series_mean(values) ==
    LET v == DropNaN(values)
        s == RatSum(v)
    IN  IF Len(v) = 0 THEN NaN ELSE Rat(s[1], s[2] * Len(v))

RECURSIVE Insert(_, _)
Insert(x, sorted) ==
    IF Len(sorted) = 0 THEN <<x>>
    ELSE IF RatLe(x, Head(sorted)) THEN <<x>> \o sorted
    ELSE <<Head(sorted)>> \o Insert(x, Tail(sorted))
RECURSIVE SortAsc(_)
SortAsc(values) ==
    IF Len(values) = 0 THEN <<>> ELSE Insert(Head(values), SortAsc(Tail(values)))

\* Series.median: the middle of the sorted non-missing values, the mean of the two
\* middle ones for an even number; NaN for no value.
series_median(values) ==
    LET s == SortAsc(DropNaN(values))
        n == Len(s)
        two == RatAdd(s[n \div 2], s[(n \div 2) + 1])
    IN  IF n = 0 THEN NaN
        ELSE IF n % 2 = 1 THEN s[(n + 1) \div 2]
        ELSE Rat(two[1], two[2] * 2)

Pow10(d) == IF d = 0 THEN 1 ELSE 10
\* format(x, ".<d>f") for x >= 0: x rounded half-even to d decimals (the result
\* counted in units of 10^-d), "nan" for NaN.  Formatting a float never raises.
RoundHalfEven(num, den) ==
    LET q == num \div den
        r == num % den
    IN  IF 2 * r < den THEN q
        ELSE IF 2 * r > den THEN q + 1
        ELSE IF q % 2 = 0 THEN q ELSE q + 1
\* Mutant: the value is converted with int() before it is formatted.
format_float_via_int(x, d) ==
    IF int_raises(x) THEN [kind |-> "raised", scaled |-> 0, decimals |-> d]
    ELSE [kind |-> "number", scaled |-> int_of(x) * Pow10(d), decimals |-> d]
format_float(x, d) ==
    IF IsNaN(x) THEN [kind |-> "nan", scaled |-> 0, decimals |-> d]
    ELSE [kind |-> "number", scaled |-> RoundHalfEven(x[1] * Pow10(d), x[2]), decimals |-> d]
\* format(n, ",") of an int.
format_int(n) == [kind |-> "number", scaled |-> n, decimals |-> 0]

\* The four metric cards (lines 109-113).
Kpis(view) ==
    [transactions |-> format_int(Len(view)),
     average_price |-> format_float(series_mean(Column(view, "resale_price")), 0),
     median_price |-> format_float(series_median(Column(view, "resale_price")), 0),
     median_floor_area |-> format_float(series_median(Column(view, "floor_area_sqm")), 1)]
NoKpi ==
    [transactions |-> format_int(0), average_price |-> format_int(0),
     median_price |-> format_int(0), median_floor_area |-> format_int(0)]
KpiRaises(k) ==
    \E f \in DOMAIN k : k[f].kind = "raised"

\* sorted(S) for a set of Timestamps.
SortedInts(S) ==
    [i \in 1..Cardinality(S) |->
        CHOOSE x \in S : Cardinality({y \in S : y < x}) = i - 1]

\* The index orders an argsort for sort_values(ascending=False) can return: keys
\* non-increasing, NaN last.  The default kind, quicksort, is not stable, so equal
\* keys come in any order.
\* Mutant: ascending order (ascending=False forgotten).
KeyGeAscending(a, b) == IsNaN(b) \/ (~IsNaN(a) /\ RatLe(a, b))
KeyGe(a, b) == IsNaN(b) \/ (~IsNaN(a) /\ RatLe(b, a))
RECURSIVE ArgsortDescFrom(_, _)
ArgsortDescFrom(keys, S) ==
    IF S = {} THEN {<<>>}
    ELSE UNION {{<<m>> \o r : r \in ArgsortDescFrom(keys, S \ {m})} :
                    m \in {i \in S : \A j \in S : KeyGe(keys[i], keys[j])}}
argsort_desc(keys) == ArgsortDescFrom(keys, 1..Len(keys))
Take(frame, order) == [i \in 1..Len(order) |-> frame[order[i]]]
head(frame, n) == IF Len(frame) <= n THEN frame ELSE SubSeq(frame, 1, n)

\* groupby("town")["resale_price"].mean() (lines 123-124).
mean_by_town(view) ==
    LET keys == SortedText(unique_towns(view))
    IN  [g \in 1..Len(keys) |->
            [town |-> keys[g],
             resale_price |-> series_mean(Column(BoolIndex(view, isin(view, "town", {keys[g]})),
                                                 "resale_price"))]]
\* ... .sort_values("resale_price", ascending=False).head(10) (lines 125-126).
top_towns(view) ==
    LET means == mean_by_town(view)
    IN  {head(Take(means, o), TopN) : o \in argsort_desc(Column(means, "resale_price"))}

\* groupby("flat_type").size() renamed to transactions (lines 135-137).
size_by_flat(view) ==
    LET keys == SortedText(unique_flat_types(view))
    IN  [g \in 1..Len(keys) |->
            [flat_type |-> keys[g],
             transactions |-> Len(BoolIndex(view, isin(view, "flat_type", {keys[g]})))]]
\* ... .sort_values("transactions", ascending=False) (line 138).
flat_counts(view) ==
    LET sizes == size_by_flat(view)
    IN  {Take(sizes, o) :
            o \in argsort_desc([g \in 1..Len(sizes) |-> Rat(sizes[g].transactions, 1)])}

\* groupby("month")["resale_price"].median().sort_values("month") (lines 145-149):
\* the keys are distinct and already ascending.
median_by_month(view) ==
    LET keys == SortedInts(Months(view))
    IN  [g \in 1..Len(keys) |->
            [month |-> keys[g],
             resale_price |->
                series_median(Column(BoolIndex(view, between_month(view, keys[g], keys[g])),
                                     "resale_price"))]]

(***************************************************************************)
(* load_data under st.cache_data: the body runs on a miss only, and its    *)
(* result is kept for the life of the process.                             *)
(***************************************************************************)
\* Mutant: no memo, the file is read on every call.
load_data_uncached(c, r, f) ==
    [table |-> read_csv(f), cache |-> <<read_csv(f)>>, reads |-> r + 1]
load_data(c, r, f) ==
    IF Len(c) = 0
    THEN [table |-> read_csv(f), cache |-> <<read_csv(f)>>, reads |-> r + 1]
    ELSE [table |-> c[1], cache |-> c, reads |-> r]

(***************************************************************************)
(* One run of the script with the widget values ws (NoWidgets in a new     *)
(* session: every widget then returns its default).                        *)
(***************************************************************************)
\* The run stops at the statement that raises: no widget value and no output.
Stopped(exception) ==
    /\ status' = exception
    /\ widgets' = NoWidgets
    /\ filtered_df' = <<>>
    /\ kpi' = NoKpi
    /\ avg_price_by_town' = <<>>
    /\ tx_by_flat' = <<>>
    /\ trend' = <<>>

\* Lines 70-151 with the widget values w.
FilterAndShow(table, w) ==
    LET view == FilterPipeline(table, w)
        cards == Kpis(view)
    IN  /\ widgets' = w
        /\ filtered_df' = view
        /\ kpi' = cards
        /\ IF KpiRaises(cards)
           THEN /\ status' = Raised
                /\ avg_price_by_town' = <<>>
                /\ tx_by_flat' = <<>>
                /\ trend' = <<>>
           ELSE /\ status' = "ok"
                /\ avg_price_by_town' \in top_towns(view)
                /\ tx_by_flat' \in flat_counts(view)
                /\ trend' = median_by_month(view)

RunScript(ws) ==
    LET loaded == load_data(cache, reads, file)
        table == loaded.table
    IN  /\ cache' = loaded.cache
        /\ reads' = loaded.reads
        /\ df' = table
        /\ file' = file
        /\ IF \/ int_raises(series_min(table, "resale_price"))
              \/ int_raises(series_max(table, "resale_price"))
           THEN Stopped(Raised)
           ELSE \/ /\ slider_may_raise(min_price(table), max_price(table))
                   /\ Stopped(SliderRaised)
                \/ FilterAndShow(table, IF HasWidgets(ws) THEN ws
                                        ELSE DefaultWidgets(table))

(***************************************************************************)
(* What the user can set the widgets to.                                   *)
(***************************************************************************)
\* One click on a multiselect adds or removes one option.
Toggle(selected, option) ==
    IF option \in selected THEN selected \ {option} ELSE selected \cup {option}
SliderValues(lo, hi) ==
    {lo + k * SliderStep : k \in 0..((hi - lo) \div SliderStep)} \cup {hi}
PriceRanges(frame) ==
    LET values == SliderValues(min_price(frame), max_price(frame))
    IN  {<<a, b>> \in values \X values : a <= b}
PickableDates(frame) == {DateOfTimestamp(t) : t \in Months(frame)}
DateRanges(frame) ==
    LET days == PickableDates(frame)
    IN  {<<>>}
        \cup {<<a>> : a \in days}
        \cup {<<a, b>> \in days \X days : to_datetime_date(a) <= to_datetime_date(b)}

(***************************************************************************)
(* Actions: each user interaction reruns the whole script.                 *)
(***************************************************************************)
InitWith(files) ==
    /\ file \in files
    /\ cache = <<>>
    /\ reads = 0
    /\ status = "norun"
    /\ df = <<>>
    /\ widgets = NoWidgets
    /\ filtered_df = <<>>
    /\ kpi = NoKpi
    /\ avg_price_by_town = <<>>
    /\ tx_by_flat = <<>>
    /\ trend = <<>>

\* A browser session starts with no widget state; the data cache is shared by
\* all sessions of the server.
OpenSession == RunScript(NoWidgets)

Rerun ==
    /\ status # "norun"
    /\ RunScript(widgets)

SelectTowns ==
    /\ status = "ok"
    /\ \E t \in unique_towns(df) :
          /\ Cardinality(Toggle(widgets.towns, t)) <= MaxSelected
          /\ RunScript([widgets EXCEPT !.towns = Toggle(widgets.towns, t)])

SelectFlatTypes ==
    /\ status = "ok"
    /\ \E f \in unique_flat_types(df) :
          /\ Cardinality(Toggle(widgets.flats, f)) <= MaxSelected
          /\ RunScript([widgets EXCEPT !.flats = Toggle(widgets.flats, f)])

MovePriceSlider ==
    /\ status = "ok"
    /\ \E range \in PriceRanges(df) :
          /\ range # widgets.price
          /\ RunScript([widgets EXCEPT !.price = range])

PickDates ==
    /\ status = "ok"
    /\ \E picked \in DateRanges(df) :
          /\ picked # widgets.dates
          /\ RunScript([widgets EXCEPT !.dates = picked])

Next ==
    \/ OpenSession
    \/ Rerun
    \/ SelectTowns
    \/ SelectFlatTypes
    \/ MovePriceSlider
    \/ PickDates

\* Small files of every shape.
Init == InitWith(SmallFiles)
Spec == Init /\ [][Next]_vars

\* The same program on the files with more than TopN towns.
InitWide == InitWith(WideFiles)
SpecWide == InitWide /\ [][Next]_vars

(***************************************************************************)
(* Definitions used to state the claims.                                   *)
(***************************************************************************)
Rows(frame) == {frame[i] : i \in 1..Len(frame)}
\* The run rendered its widgets, and the price slider has two distinct ends (it
\* renders under every Streamlit version).
Rendered == status = "ok" /\ min_price(df) < max_price(df)
DateLe(a, b) ==
    \/ a[1] < b[1]
    \/ a[1] = b[1] /\ a[2] < b[2]
    \/ a[1] = b[1] /\ a[2] = b[2] /\ a[3] <= b[3]

\* The conjunction of the predicates that are active in filter state w.
Satisfies(r, w) ==
    /\ w.towns # {} => r.town \in w.towns
    /\ w.flats # {} => r.flat_type \in w.flats
    /\ ~IsNaN(r.resale_price)
    /\ w.price[1] * r.resale_price[2] <= r.resale_price[1]
    /\ r.resale_price[1] <= w.price[2] * r.resale_price[2]
    /\ Len(w.dates) = 2 =>
          /\ DateLe(w.dates[1], DateOfTimestamp(r.month))
          /\ DateLe(DateOfTimestamp(r.month), w.dates[2])

\* C1: in every filter state the Filtered View holds exactly the rows of the full
\* table that satisfy every active predicate (town and flat type in the selection
\* when it is not empty, price within the inclusive bounds, month within the
\* inclusive dates when two are picked): none is dropped, none is invented.
C1_ExactRows ==
    status = "ok" => Rows(filtered_df) = {r \in Rows(df) : Satisfies(r, widgets)}
C1_Witness ==
    /\ Rendered
    /\ widgets.towns # {}
    /\ widgets.flats # {}
    /\ Len(widgets.dates) = 2
    /\ Len(filtered_df) >= 1
    /\ Len(filtered_df) < Len(df)

\* C2: the Filtered View is a subsequence of the full table: each of its rows is the
\* row of the full table with the same index label, no row comes twice, and the
\* rows keep the order of the source.
C2_Subsequence ==
    status = "ok" =>
        /\ \A i \in 1..Len(filtered_df) :
              /\ filtered_df[i].idx + 1 \in 1..Len(df)
              /\ filtered_df[i] = df[filtered_df[i].idx + 1]
        /\ \A i, j \in 1..Len(filtered_df) :
              i < j => filtered_df[i].idx < filtered_df[j].idx
C2_Witness ==
    /\ Rendered
    /\ widgets.flats # {}
    /\ Len(filtered_df) >= 2

\* C3: with every widget at its default the Filtered View is the full table and the
\* "Transactions" card shows the row count of the full table (stated for the files
\* whose slider has two distinct ends).
C3_DefaultsShowAll ==
    (Rendered /\ widgets = DefaultWidgets(df)) =>
        /\ filtered_df = df
        /\ kpi.transactions = format_int(Len(df))

\* The filter states that narrow exactly one filter of w: the towns or the flat
\* types replaced by a proper subset (the empty one too when emptyAllowed), the price
\* interval by an interval inside it, a two-date range by a two-date range inside
\* it.
Narrowings(w, frame, emptyAllowed) ==
    {[w EXCEPT !.towns = s] :
        s \in {x \in SUBSET w.towns : x # w.towns /\ (emptyAllowed \/ x # {})}}
    \cup {[w EXCEPT !.flats = s] :
        s \in {x \in SUBSET w.flats : x # w.flats /\ (emptyAllowed \/ x # {})}}
    \cup {[w EXCEPT !.price = p] :
        p \in {x \in PriceRanges(frame) :
                  x # w.price /\ w.price[1] <= x[1] /\ x[2] <= w.price[2]}}
    \cup {[w EXCEPT !.dates = d] :
        d \in {x \in DateRanges(frame) :
                  /\ Len(w.dates) = 2 /\ Len(x) = 2 /\ x # w.dates
                  /\ DateLe(w.dates[1], x[1]) /\ DateLe(x[2], w.dates[2])}}

\* C4 as stated: a cycle whose filter state narrows exactly one filter of the state
\* of the cycle before it (a selection replaced by any subset of it) never shows
\* more rows (stated for the files whose slider has two distinct ends).
C4_Original ==
    [][(Rendered /\ status' = "ok" /\ widgets' \in Narrowings(widgets, df, TRUE))
          => Len(filtered_df') <= Len(filtered_df)]_vars

\* C4, amended: a cycle whose filter state narrows exactly one filter of the state
\* of the cycle before it (selected towns or flat types replaced by a non-empty
\* proper subset, the price interval by an interval inside it, a two-date range by
\* a two-date range inside it) never shows more rows.
C4_Monotone ==
    [][(status = "ok" /\ status' = "ok" /\ widgets' \in Narrowings(widgets, df, FALSE))
          => Len(filtered_df') <= Len(filtered_df)]_vars
C4_Witness ==
    /\ Rendered
    /\ \E n \in Narrowings(widgets, df, FALSE) :
          /\ n.towns # widgets.towns
          /\ Len(FilterPipeline(df, n)) < Len(filtered_df)

\* C5: when the date picker holds fewer than two dates the run completes and the
\* Filtered View is the result of the town, flat-type and price filters alone.
C5_DateFilterSkipped ==
    (status # "norun" /\ HasWidgets(widgets) /\ Len(widgets.dates) < 2) =>
        /\ status = "ok"
        /\ filtered_df =
              FilterPrice(FilterFlatTypes(FilterTowns(df, widgets), widgets), widgets)
C5_Witness ==
    /\ Rendered
    /\ Len(widgets.dates) = 1
    /\ \E r \in Rows(filtered_df) : DateOfTimestamp(r.month) # widgets.dates[1]

\* C6: the flat-type counts have one row per distinct flat type of the Filtered
\* View, their counts sum to the number of rows of the view, and they are in
\* descending order of count (stated for the files whose slider has two distinct
\* ends).
RECURSIVE SumTransactions(_)
SumTransactions(frame) ==
    IF Len(frame) = 0 THEN 0 ELSE Head(frame).transactions + SumTransactions(Tail(frame))
C6_FlatTypeCounts ==
    Rendered =>
        /\ Len(tx_by_flat) = Cardinality(unique_flat_types(filtered_df))
        /\ {tx_by_flat[i].flat_type : i \in 1..Len(tx_by_flat)}
              = unique_flat_types(filtered_df)
        /\ SumTransactions(tx_by_flat) = Len(filtered_df)
        /\ \A i, j \in 1..Len(tx_by_flat) :
              i < j => tx_by_flat[i].transactions >= tx_by_flat[j].transactions

\* The mean resale price of town t in the view, as the sum over its rows divided by
\* their number.
RECURSIVE PriceSum(_, _)
PriceSum(frame, S) ==
    IF S = {} THEN Rat(0, 1)
    ELSE LET i == CHOOSE k \in S : TRUE
         IN  RatAdd(frame[i].resale_price, PriceSum(frame, S \ {i}))
TownRows(frame, t) == {i \in 1..Len(frame) : frame[i].town = t}
TownMean(frame, t) ==
    LET total == PriceSum(frame, TownRows(frame, t))
    IN  Rat(total[1], total[2] * Cardinality(TownRows(frame, t)))
RatEq(a, b) == a[1] * b[2] = b[1] * a[2]
RankedTowns == {avg_price_by_town[i].town : i \in 1..Len(avg_price_by_town)}
\* What C7 and its amendment share: at most TopN rows, one per town, each the mean
\* price of a town of the view, and no town left out above a town of the ranking.
RankingShape ==
    /\ Len(avg_price_by_town) <= TopN
    /\ Cardinality(RankedTowns) = Len(avg_price_by_town)
    /\ RankedTowns \subseteq unique_towns(filtered_df)
    /\ \A i \in 1..Len(avg_price_by_town) :
          /\ ~IsNaN(avg_price_by_town[i].resale_price)
          /\ RatEq(avg_price_by_town[i].resale_price,
                   TownMean(filtered_df, avg_price_by_town[i].town))
    /\ \A t \in unique_towns(filtered_df) \ RankedTowns :
          /\ Len(avg_price_by_town) = TopN
          /\ \A i \in 1..Len(avg_price_by_town) :
                RatLe(TownMean(filtered_df, t), avg_price_by_town[i].resale_price)

C8_EmptyView ==
    (status # "norun" /\ HasWidgets(widgets) /\ filtered_df = <<>>) =>
        /\ status = "ok"
        /\ kpi.transactions = [kind |-> "number", scaled |-> 0, decimals |-> 0]
        /\ kpi.average_price = [kind |-> "nan", scaled |-> 0, decimals |-> 0]
        /\ kpi.median_price = [kind |-> "nan", scaled |-> 0, decimals |-> 0]
        /\ kpi.median_floor_area = [kind |-> "nan", scaled |-> 0, decimals |-> 1]
        /\ avg_price_by_town = <<>>
        /\ tx_by_flat = <<>>
        /\ trend = <<>>
C8_Witness ==
    /\ Rendered
    /\ filtered_df = <<>>
    /\ Len(df) > 0
    /\ widgets.price[1] = widgets.price[2]
    /\ widgets.towns = {}
    /\ widgets.flats = {}

\* C9: over any sequence of runs the CSV file is read at most once: no run before
\* the first has read it, and after any number of runs it has been read exactly
\* once and the table in use is the one that read produced, months converted.
C9_ReadOnce ==
    /\ reads <= 1
    /\ status = "norun" => reads = 0 /\ cache = <<>>
    /\ status # "norun" => reads = 1 /\ cache = <<read_csv(file)>> /\ df = cache[1]
C9_Witness ==
    /\ Rendered
    /\ reads = 1
    /\ widgets # DefaultWidgets(df)

\* C10: the filter pipeline applied with the same state to the view it produced
\* returns that view, and the view of a run is the pipeline's result for the
\* run's own filter state on the full table, whatever the runs before it showed.
C10_Idempotent ==
    status = "ok" =>
        /\ FilterPipeline(filtered_df, widgets) = filtered_df
        /\ filtered_df = FilterPipeline(df, widgets)
C10_Witness ==
    /\ Rendered
    /\ widgets.towns # {}
    /\ Len(filtered_df) >= 1
    /\ Len(filtered_df) < Len(df)

====
